---- MODULE Spec2Model ----
(***************************************************************************)
(* State-machine model of Galaxia_ananke.Input (src/Galaxia_ananke/        *)
(* Input.py): construction from arrays or from pre-existing EBF files,     *)
(* particle verification and default filling, kernel derivation, the       *)
(* dataset writers, the parameter file and run staging.                    *)
(*                                                                         *)
(* Conventions                                                             *)
(*  - A numpy array is a record [dtype, data]; data is the sequence of its *)
(*    rows (len(array) = Len(data)).  None is NoneArr.                     *)
(*  - File names are sequences of one-character strings, so that the       *)
(*    regular expressions of __init__ are evaluated character by character.*)
(*  - Densities, kernel lengths, k_factor and knorm are positive reals.    *)
(*    The code only multiplies, divides, cubes and takes square and cube   *)
(*    roots of them, so a value x is represented by its exponent e         *)
(*    (x = u^e for a fixed unit u): product is +, quotient is -, cube is   *)
(*    3*e, cbrt is e \div 3, sqrt is e \div 2.  Equality of exponents      *)
(*    stands for equality up to floating-point tolerance.                  *)
(*  - A Python dict is a function; its keys are its DOMAIN.  Dicts live in *)
(*    `heap` and are held by reference, as in Python.                      *)
(***************************************************************************)
EXTENDS Integers, Sequences, FiniteSets, TLC

VARIABLES
    fs,      \* the file system: path -> file content
    heap,    \* dict objects by reference: "callerDict", "ebfDict"
    objs,    \* the Input instances: "A" (array-based), "F" (file-based)
    made,    \* the constructor call each instance was made by
    last     \* the last call: operation, arguments, outcome, I/O events

vars == <<fs, heap, objs, made, last>>

\* ------------------------------------------------------------------ bounds
\* largest number of particles in a caller-supplied particle set
MaxN == 3

\* ------------------------------------------------------- class attributes
_required_keys_in_particles == {"pos3", "vel3", "mass", "age", "feh"}

_optional_keys_in_particles ==
    {"parentid", "id", "dform", "helium", "carbon", "nitrogen", "oxygen",
     "neon", "magnesium", "silicon", "sulphur", "calcium", "alpha"}

all_possible_keys_in_particles ==
    _required_keys_in_particles \cup _optional_keys_in_particles

_mass == "mass"
_parentid == "parentid"
_dform == "dform"
_kernels == "h_cubic"
_density == "density"

\* exponent of FOURTHIRDPI = 4*pi/3
FOURTHIRDPI == 3
\* exponent of the default former-kernel normalisation 0.596831
KnormDefault == -1
\* exponent of the default k_factor 1.
KFactorDefault == 0
\* TTAGS.nres, the default neighbour count
TTAGS_nres == 64
GALAXIA_TMP == "tmp"
GALAXIA_NBODY1 == "nbody1"
GALAXIA_FILENAMES == "filenames"
DEFAULT_SIMNAME == <<"s", "i", "m">>
DEFAULT_PARFILE == <<"p", "a", "r">>

\* ----------------------------------------------------------------- values
NoneArr == [dtype |-> "None", data |-> <<>>]
NonePath == [dir |-> "None", name |-> <<>>]
NoDict == [none \in {"None"} |-> NoneArr]
NoErr == [kind |-> "none", msg |-> "none"]
Err(kind, msg) == [kind |-> kind, msg |-> msg]

IsNone(a) == a.dtype = "None"
len(a) == Len(a.data)
Arr(dtype, data) == [dtype |-> dtype, data |-> data]
Path(dir, name) == [dir |-> dir, name |-> name]

\* np.arange(n)
arange(n) == Arr("int64", [i \in 1..n |-> i - 1])
\* np.zeros(n)
zeros(n) == Arr("float64", [i \in 1..n |-> 0])
\* 0*a for a numpy array a: zeros of a's shape and dtype
ZeroTimes(a) == Arr(a.dtype, [i \in 1..len(a) |-> 0])

\* scalars and arrays of exponents share one shape: kind "s" holds one value
Scalar(v) == [k |-> "s", v |-> <<v>>]
Vector(s) == [k |-> "a", v |-> s]

\* --------------------------------------------------------- exponent algebra
RECURSIVE LogInt(_)
\* exponent of the integer n (exact for powers of two, in half-bits)
LogInt(n) == IF n <= 1 THEN 0 ELSE 2 + LogInt(n \div 2)
sqrt(e) == e \div 2
cbrt(e) == e \div 3
cube(e) == 3 * e

\* ------------------------------------------------------------ text helpers
Digits == <<"0", "1", "2", "3", "4", "5", "6", "7", "8", "9">>
IsDigit(c) == \E i \in 1..10 : Digits[i] = c
DigitVal(c) == (CHOOSE i \in 1..10 : Digits[i] = c) - 1

RECURSIVE str(_)
\* str(n) for an int n >= 0, as used by the f-string of kname
str(n) == IF n < 10 THEN <<Digits[n + 1]>> ELSE str(n \div 10) \o <<Digits[(n % 10) + 1]>>

RECURSIVE int(_)
\* int(s) for a non-empty string of digits
int(s) == IF Len(s) = 1 THEN DigitVal(s[1])
          ELSE 10 * int(SubSeq(s, 1, Len(s) - 1)) + DigitVal(s[Len(s)])

\* s starts with t at position i (1-based)
StartsWithAt(s, t, i) ==
    /\ i + Len(t) - 1 <= Len(s)
    /\ \A j \in 1..Len(t) : s[i + j - 1] = t[j]

\* end (exclusive) of the maximal run of digits of s that starts at i: \d* greedy
RECURSIVE DigitsEnd(_, _)
DigitsEnd(s, i) == IF i <= Len(s) /\ IsDigit(s[i]) THEN DigitsEnd(s, i + 1) ELSE i

\* ------------------------------------------------- file names (lines 122-124)
EBF == <<"e", "b", "f">>

\* positions p at which "(.*).ebf" can end its match: one character, then "ebf"
EbfEnds(s) == {p \in 2..Len(s) : StartsWithAt(s, EBF, p)}

\* re.findall("(.*).ebf", s): the groups found; (.*) is greedy, so the match
\* starts at the first character and runs to the last "ebf" it can reach
FindName(s) ==
    IF EbfEnds(s) = {} THEN <<>>
    ELSE LET p == CHOOSE q \in EbfEnds(s) : \A r \in EbfEnds(s) : r <= q
         IN  <<SubSeq(s, 1, p - 2)>>

\* the match of f"{name}_d(\d*)n(\d*)_den.ebf" that starts at position i of s,
\* as <<ok, hdim digits, ngb digits>>
KernelMatchAt(name, s, i) ==
    LET head == name \o <<"_", "d">>
        d1 == i + Len(head)
        e1 == DigitsEnd(s, d1)
        e2 == DigitsEnd(s, e1 + 1)
    IN  IF /\ StartsWithAt(s, head, i)
           /\ StartsWithAt(s, <<"n">>, e1)
           /\ StartsWithAt(s, <<"_", "d", "e", "n">>, e2)
           /\ StartsWithAt(s, EBF, e2 + 5)
        THEN <<TRUE, SubSeq(s, d1, e1 - 1), SubSeq(s, e1 + 1, e2 - 1)>>
        ELSE <<FALSE, <<>>, <<>>>>

\* re.findall(pattern, s): the pattern is searched, not anchored; [0] is the
\* leftmost match.  <<>> when there is none.
FindKernel(name, s) ==
    LET starts == {i \in 1..(Len(s) + 1) : KernelMatchAt(name, s, i)[1]}
    IN  IF starts = {} THEN <<>>
        ELSE LET i == CHOOSE j \in starts : \A k \in starts : j <= k
                 m == KernelMatchAt(name, s, i)
             IN  <<<<m[2], m[3]>>>>

\* ---------------------------------------------- validators (Galaxia_ananke.utils)
compare_given_and_required(given, required, optional) ==
    IF required \subseteq given /\ given \subseteq (required \cup optional)
    THEN NoErr
    ELSE Err("SchemaError", "Given particle data covers wrong set of keys")

confirm_equal_length_arrays_in_dict(d, ref) ==
    IF \A k \in DOMAIN d : len(d[k]) = len(d[ref])
    THEN NoErr
    ELSE Err("LengthMismatchError", "particles")

\* d with d[k] = a, as Python's d[k] = a
DictSet(d, k, a) == [x \in DOMAIN d \cup {k} |-> IF x = k THEN a ELSE d[x]]

\* FillDefaults with np.zeros for the formation distance: float64 zeros
\* whatever the dtype of mass
FillDefaultsNpZeros(d) ==
    LET n == len(d[_mass])
        d1 == IF _parentid \notin DOMAIN d THEN DictSet(d, _parentid, arange(n)) ELSE d
    IN  IF _dform \notin DOMAIN d1 THEN DictSet(d1, _dform, zeros(n)) ELSE d1

\* the two default insertions of __verify_particles (lines 338-341)
FillDefaults(d) ==
    LET n == len(d[_mass])
        d1 == IF _parentid \notin DOMAIN d THEN DictSet(d, _parentid, arange(n)) ELSE d
    IN  IF _dform \notin DOMAIN d1 THEN DictSet(d1, _dform, ZeroTimes(d1[_mass])) ELSE d1

\* __verify_particles with the defaults inserted ahead of the two checks
verify_particles_defaults_first(d) ==
    LET d1 == IF _mass \in DOMAIN d THEN FillDefaults(d) ELSE d
        e1 == compare_given_and_required(DOMAIN d1, _required_keys_in_particles,
                                         _optional_keys_in_particles)
        e2 == confirm_equal_length_arrays_in_dict(d1, _mass)
    IN  IF e1 # NoErr THEN [err |-> e1, dict |-> d1]
        ELSE IF e2 # NoErr THEN [err |-> e2, dict |-> d1]
        ELSE [err |-> NoErr, dict |-> d1]

\* Input.__verify_particles on the dict d held by the instance:
\* the error raised (NoErr when none) and the dict as the call leaves it
verify_particles(d) ==
    LET e1 == compare_given_and_required(DOMAIN d, _required_keys_in_particles,
                                         _optional_keys_in_particles)
        e2 == confirm_equal_length_arrays_in_dict(d, _mass)
    IN  IF e1 # NoErr THEN [err |-> e1, dict |-> d]
        ELSE IF e2 # NoErr THEN [err |-> e2, dict |-> d]
        ELSE [err |-> NoErr, dict |-> FillDefaults(d)]

\* ------------------------------------------------------------ kernel algebra
\* element i of a scalar or per-particle quantity (numpy broadcasting)
At(x, i) == IF x.k = "s" THEN x.v[1] ELSE x.v[i]

\* np.vstack([rho_pos, rho_vel]).T : <<ok, rows>>; it raises when rho_vel is
\* None or the lengths differ
rho(o) ==
    IF IsNone(o.rho_vel) \/ len(o.rho_pos) # len(o.rho_vel) THEN <<FALSE, <<>>>>
    ELSE <<TRUE, [i \in 1..len(o.rho_pos) |-> <<o.rho_pos.data[i], o.rho_vel.data[i]>>]>>

\* k_factor/np.cbrt(FOURTHIRDPI*rho) for the rows r of rho: a scalar k_factor
\* divides every entry; an array of k_factor of shape (M,) broadcasts against
\* (N,2) only for M in {1,2} and then runs along the columns
Divide(kf, r) ==
    IF ~r[1] THEN [err |-> Err("ValueError", "vstack"), h |-> NoneArr]
    ELSE IF kf.k = "a" /\ Len(kf.v) \notin {1, 2}
    THEN [err |-> Err("ValueError", "broadcast"), h |-> NoneArr]
    ELSE [err |-> NoErr,
          h |-> Arr("float64",
                    [i \in 1..Len(r[2]) |->
                       [j \in 1..2 |->
                          (IF kf.k = "s" \/ Len(kf.v) = 1 THEN kf.v[1] ELSE kf.v[j])
                          - cbrt(FOURTHIRDPI + r[2][i][j])]])]

\* the kernels property (lines 312-314)
kernels(o) == Divide(o.k_factor, rho(o))

hdim(o) == IF IsNone(o.rho_vel) THEN 3 ELSE 6

\* the kname and pname properties (lines 316-326), without the caching
kname(o) ==
    IF o.kname = NonePath
    THEN Path(o.input_dir, o.name \o <<"_", "d">> \o str(hdim(o)) \o <<"n">>
                           \o str(o.ngb) \o <<"_", "d", "e", "n", ".">> \o EBF)
    ELSE o.kname

pname(o) ==
    IF o.pname = NonePath THEN Path(o.input_dir, o.name \o <<".">> \o EBF) ELSE o.pname

\* ------------------------------------------------------------- constructor
\* former_kernel values: False, True, or a dict that may hold 'knorm'
Former(truthy, isdict, hasKnorm, knorm) ==
    [truthy |-> truthy, isdict |-> isdict, hasKnorm |-> hasKnorm, knorm |-> knorm]
FormerFalse == Former(FALSE, FALSE, FALSE, Scalar(KnormDefault))
FormerTrue == Former(TRUE, FALSE, FALSE, Scalar(KnormDefault))
FormerDict(knorm) == Former(TRUE, TRUE, TRUE, knorm)

NoInput ==
    [exists |-> FALSE, particles |-> "None", rho_pos |-> NoneArr, rho_vel |-> NoneArr,
     input_dir |-> "None", name |-> <<>>, pname |-> NonePath, kname |-> NonePath,
     ngb |-> 0, k_factor |-> Scalar(0), input_files_exist |-> FALSE]

\* kwargs.get(key, default) on the keywords of a call
Get(call, key, default) == IF key \in call.kw THEN call[key] ELSE default

\* the constructor leaves the dispatch with error e, having read `reads`
Raise(call, e, reads) == [err |-> e, kw |-> call, reads |-> reads, dict |-> NoDict]

\* lines 112-116: the kwargs after the array-based dispatch
ArrayKwargs(call) ==
    IF call.nargs \notin {2, 3}
    THEN Raise(call, Err("RuntimeError", "No active exception to reraise"), <<>>)
    ELSE [err |-> NoErr,
          kw |-> [call EXCEPT !.kw = (@ \cup {"particles", "rho_pos", "rho_vel"}),
                              !.rho_vel = IF call.nargs = 3 THEN call.rho_vel
                                          ELSE Get(call, "rho_vel", NoneArr),
                              !.particles = "callerDict",
                              !.input_files_exist = FALSE],
          reads |-> <<>>, dict |-> NoDict]

\* ebf.read(path) on the file system f: <<ok, data>>
ebf_read(f, path) ==
    IF path \in DOMAIN f /\ f[path].kind = "ebf" THEN <<TRUE, f[path].data>>
    ELSE <<FALSE, NoDict>>

\* line 129: _k[h_cubic][:,0] * np.cbrt(FOURTHIRDPI*_k[density])
ReadKFactor(k) ==
    [i \in 1..len(k[_kernels]) |->
        k[_kernels].data[i][1] + cbrt(FOURTHIRDPI + k[_density].data[i])]

\* line 131: _k_factor/(np.sqrt(ngb) * np.cbrt(FOURTHIRDPI))
ReadKnorm(kf, ngb) ==
    [i \in 1..Len(kf) |-> kf[i] - (sqrt(LogInt(ngb)) + cbrt(FOURTHIRDPI))]

\* line 133: the median when all entries agree to rounding, else the array
Collapse(kn) ==
    IF Cardinality({kn[i] : i \in 1..Len(kn)}) = 1 THEN Scalar(kn[1]) ELSE Vector(kn)

\* line 134: (np.sqrt(ngb) * _knorm / _k[h_cubic][:,1])**3
FormerRhoVel(k, kn, ngb) ==
    Arr("float64", [i \in 1..len(k[_kernels]) |->
        cube(sqrt(LogInt(ngb)) + At(kn, i) - k[_kernels].data[i][2])])

\* line 137: (_k_factor / _k[h_cubic][:,1])**3 / FOURTHIRDPI
CurrentRhoVel(k, kf) ==
    Arr("float64", [i \in 1..len(k[_kernels]) |->
        cube(kf[i] - k[_kernels].data[i][2]) - FOURTHIRDPI])

\* the row width of an (N, w) array
Width(a) == IF len(a) = 0 THEN 2 ELSE Len(a.data[1])

\* lines 130-135: the former convention, with knorm kn
FormerKwargs(base, k, kn, ngb) ==
    [base EXCEPT !.kw = (@ \cup {"former_kernel"}),
                 !.rho_vel = FormerRhoVel(k, kn, ngb),
                 !.former_kernel = FormerDict(kn)]

\* lines 136-138: the current convention, with the k_factor array kf
CurrentKwargs(base, k, kf) ==
    [base EXCEPT !.kw = (@ \cup {"k_factor"}),
                 !.rho_vel = CurrentRhoVel(k, kf),
                 !.k_factor = Vector(kf)]

\* lines 129-139, kf being the _k_factor of line 129
Reconstruct(base, pd, k, ngb, kf) ==
    [err |-> NoErr,
     kw |-> IF Get(base, "former_kernel", FormerFalse).truthy
            THEN FormerKwargs(base, k, Collapse(ReadKnorm(kf, ngb)), ngb)
            ELSE CurrentKwargs(base, k, kf),
     reads |-> <<base.pname, base.kname>>,
     dict |-> pd]

\* lines 121-128: the kwargs taken from the names and the kernel file k
FileBase(call, name, ngb, k) ==
    [call EXCEPT !.kw = (@ \cup {"input_dir", "name", "ngb", "particles",
                                "rho_pos", "rho_vel"}),
                 !.input_dir = call.pname.dir,
                 !.name = name,
                 !.ngb = ngb,
                 !.particles = "ebfDict",
                 !.rho_pos = IF _density \in DOMAIN k THEN k[_density] ELSE NoneArr,
                 !.input_files_exist = TRUE]

\* lines 127-129: the kernel file k is indexed
IndexKernels(call, pd, k, name, ngb) ==
    IF ~({_mass, _density, _kernels} \subseteq DOMAIN k)
    THEN Raise(call, Err("KeyError", "kernel file"), <<call.pname, call.kname>>)
    ELSE IF Width(k[_kernels]) < 2
    THEN Raise(call, Err("IndexError", "h_cubic"), <<call.pname, call.kname>>)
    ELSE IF len(k[_kernels]) # len(k[_density])
    THEN Raise(call, Err("ValueError", "broadcast"), <<call.pname, call.kname>>)
    ELSE Reconstruct(FileBase(call, name, ngb, k), pd, k, ngb, ReadKFactor(k))

\* lines 125-126: the two files are read, p and kr being what ebf.read gives
ReadFiles(call, p, kr, name, ngb) ==
    IF ~p[1] THEN Raise(call, Err("IOError", "pname"), <<call.pname>>)
    ELSE IF ~kr[1] THEN Raise(call, Err("IOError", "kname"), <<call.pname, call.kname>>)
    ELSE IndexKernels(call, p[2], kr[2], name, ngb)

\* lines 123-124: found is what re.findall gives on the kernel file name
ParseKernelName(call, f, name, found) ==
    IF found = <<>> THEN Raise(call, Err("IndexError", "kname"), <<>>)
    ELSE IF found[1][1] = <<>> \/ found[1][2] = <<>>
    THEN Raise(call, Err("ValueError", "invalid literal for int()"), <<>>)
    ELSE ReadFiles(call, ebf_read(f, call.pname), ebf_read(f, call.kname),
                   name, int(found[1][2]))

\* line 122: names is what re.findall gives on the particle file name
ParseName(call, f, names) ==
    IF names = <<>> THEN Raise(call, Err("IndexError", "pname"), <<>>)
    ELSE ParseKernelName(call, f, names[1], FindKernel(names[1], call.kname.name))

\* lines 117-139: the file-based dispatch
FileKwargs(call, f) ==
    IF call.pname.dir # call.kname.dir
    THEN Raise(call, Err("ValueError", "need to share the same parent directory"), <<>>)
    ELSE ParseName(call, f, FindName(call.pname.name))

\* lines 111-141: the dispatch on the call signature
Dispatch(call, f) ==
    IF call.nargs > 0 THEN ArrayKwargs(call)
    ELSE IF {"pname", "kname"} \subseteq call.kw THEN FileKwargs(call, f)
    ELSE Raise(call, Err("ValueError", "Wrong signature"), <<>>)

\* lines 151-154: the k_factor of the instance
InitKFactor(kw) ==
    LET old == Get(kw, "former_kernel", FormerFalse)
        knorm == IF old.isdict /\ old.hasKnorm THEN old.knorm ELSE Scalar(KnormDefault)
    IN  Get(kw, "k_factor",
            IF ~(old.isdict \/ old.truthy) THEN Scalar(KFactorDefault)
            ELSE [k |-> knorm.k,
                  v |-> [i \in 1..Len(knorm.v) |->
                           sqrt(LogInt(Get(kw, "ngb", TTAGS_nres))) + knorm.v[i]
                           + cbrt(FOURTHIRDPI)]])

\* lines 142-154: the instance built from the dispatched kwargs
NewInput(kw) ==
    [exists |-> TRUE,
     particles |-> kw.particles,
     rho_pos |-> kw.rho_pos,
     rho_vel |-> Get(kw, "rho_vel", NoneArr),
     input_dir |-> Get(kw, "input_dir", GALAXIA_TMP),
     name |-> Get(kw, "name", DEFAULT_SIMNAME),
     pname |-> Get(kw, "pname", NonePath),
     kname |-> Get(kw, "kname", NonePath),
     ngb |-> Get(kw, "ngb", TTAGS_nres),
     k_factor |-> InitKFactor(kw),
     input_files_exist |-> kw.input_files_exist]

\* lines 143-154: v is what __verify_particles gives on the dict held
Build(k, v) ==
    IF v.err # NoErr
    THEN [err |-> v.err, obj |-> NoInput, ref |-> k.kw.particles, dict |-> v.dict,
          reads |-> k.reads]
    ELSE [err |-> NoErr, obj |-> NewInput(k.kw), ref |-> k.kw.particles,
          dict |-> v.dict, reads |-> k.reads]

\* lines 142-143: the instance takes the dict (the caller's own d in an
\* array-based call) and verifies it
Hold(k, d) ==
    IF k.err # NoErr
    THEN [err |-> k.err, obj |-> NoInput, ref |-> "None", dict |-> NoDict,
          reads |-> k.reads]
    ELSE Build(k, verify_particles(IF k.kw.particles = "callerDict" THEN d ELSE k.dict))

\* Input.__init__(*args, **kwargs) on file system f, the caller's dict being d:
\* the error raised (NoErr when none), the instance, the dict the instance
\* holds as the call leaves it, the reference under which it is held, and the
\* files read
init(call, f, d) == Hold(Dispatch(call, f), d)

\* ------------------------------------------------------------ file system
EbfFile(data) == [kind |-> "ebf", data |-> data]
\* an EBF file right after ebf.initialize: no data item yet
EmptyEbf == EbfFile([x \in {} |-> NoneArr])

\* f with the file at path replaced or created
FsPut(f, path, content) ==
    [q \in DOMAIN f \cup {path} |-> IF q = path THEN content ELSE f[q]]

\* ----------------------------------------------------------------- writers
\* the kernel file after the first n of its three ebf.write calls
KernelFile(o, d, h, n) ==
    EbfFile([x \in (IF n = 1 THEN {_density} ELSE IF n = 2 THEN {_density, _kernels}
                    ELSE {_density, _kernels, _mass}) |->
                IF x = _density THEN o.rho_pos ELSE IF x = _kernels THEN h ELSE d[_mass]])

\* lines 363-368, kn being self.kname and h what self.kernels gives
WriteKernelFile(o, d, f, kn, h) ==
    IF o.input_files_exist
    THEN [err |-> NoErr, ret |-> kn, fs |-> f, obj |-> o, log |-> <<>>]
    ELSE IF h.err # NoErr
    THEN [err |-> h.err, ret |-> NonePath, fs |-> FsPut(f, kn, KernelFile(o, d, h.h, 1)),
          obj |-> o, log |-> <<>>]
    ELSE IF _mass \notin DOMAIN d
    THEN [err |-> Err("KeyError", _mass), ret |-> NonePath,
          fs |-> FsPut(f, kn, KernelFile(o, d, h.h, 2)), obj |-> o, log |-> <<>>]
    ELSE [err |-> NoErr, ret |-> kn, fs |-> FsPut(f, kn, KernelFile(o, d, h.h, 3)),
          obj |-> o, log |-> <<"kernels">>]

\* the instance after the kname property cached the name kn
CacheKname(o, kn) == [o EXCEPT !.kname = kn]
CachePname(o, pn) == [o EXCEPT !.pname = pn]

\* Input.keys and Input.optional_keys for an instance holding dict d
keys(d) == DOMAIN d
optional_keys(d) == keys(d) \cap _optional_keys_in_particles

\* Input._write_kernels for instance o holding dict d, on file system f: the
\* error raised, the path returned, the file system and the instance after
\* the call (the kname property caches the name it computes)
_write_kernels(o, d, f) ==
    WriteKernelFile(CacheKname(o, kname(o)), d, f, kname(o), kernels(o))

\* the particle file with only the keys the dict holds
ParticleFileDataPresentOnly(d) == [key \in DOMAIN d |-> d[key]]

\* lines 374-377: what the particle file holds for dict d
ParticleFileData(d) ==
    [key \in all_possible_keys_in_particles |->
        IF key \in DOMAIN d THEN d[key] ELSE zeros(len(d[_mass]))]

\* lines 372-378, pn being self.pname
WriteParticleFile(o, d, f, pn) ==
    IF o.input_files_exist
    THEN [err |-> NoErr, ret |-> pn, fs |-> f, obj |-> o, log |-> <<>>]
    ELSE IF ~(_required_keys_in_particles \subseteq DOMAIN d)
    THEN [err |-> Err("KeyError", "particles"), ret |-> NonePath,
          fs |-> FsPut(f, pn, EmptyEbf), obj |-> o, log |-> <<>>]
    ELSE [err |-> NoErr, ret |-> pn, fs |-> FsPut(f, pn, EbfFile(ParticleFileData(d))),
          obj |-> o, log |-> <<"particles">>]

\* Input._write_particles, likewise
_write_particles(o, d, f) == WriteParticleFile(CachePname(o, pname(o)), d, f, pname(o))

\* --------------------------------------------------------- parameter file
PInt(i) == [t |-> "int", s |-> "", i |-> i]
PStr(x) == [t |-> "str", s |-> x, i |-> 0]

\* TTAGS: the names of the four mandatory fields
MandatoryTags == {"photo_categ", "photo_sys", "mag_color_names", "nres"}

DEFAULTS_FOR_PARFILE ==
    [x \in MandatoryTags \cup {"output_file", "r_max"} |->
        IF x = "nres" THEN PInt(TTAGS_nres) ELSE PStr("default")]

NoPar == [x \in {} |-> PStr("")]

\* Isochrone.check_cmd_magnames: the names, each of which the isochrone has
check_cmd_magnames(isochrone, cmd_magnames) ==
    IF cmd_magnames \in isochrone.mag_names THEN <<TRUE, cmd_magnames>>
    ELSE <<FALSE, cmd_magnames>>

\* the dict the four mandatory fields are given as (line 357)
Mandatory(o, isochrone, cmd_magnames) ==
    [x \in MandatoryTags |->
        IF x = "photo_categ" THEN PStr(isochrone.category)
        ELSE IF x = "photo_sys" THEN PStr(isochrone.name)
        ELSE IF x = "mag_color_names" THEN PStr(cmd_magnames)
        ELSE PInt(o.ngb)]

\* dict.update(**mandatory, **kwargs) on a copy of the defaults: a keyword
\* given twice is a TypeError of the call itself
Merge(defaults, mandatory, kwargs) ==
    IF DOMAIN mandatory \cap DOMAIN kwargs # {}
    THEN <<FALSE, NoPar>>
    ELSE <<TRUE, [x \in DOMAIN defaults \cup DOMAIN mandatory \cup DOMAIN kwargs |->
                    IF x \in DOMAIN kwargs THEN kwargs[x]
                    ELSE IF x \in DOMAIN mandatory THEN mandatory[x]
                    ELSE defaults[x]]>>

\* lines 353-355: kwargs.parfile is the popped 'parfile' entry (NonePath when
\* absent, dir "." when relative)
ParfilePath(o, kwargs) ==
    IF kwargs.parfile = NonePath THEN Path(o.input_dir, DEFAULT_PARFILE)
    ELSE IF kwargs.parfile.dir = "." THEN Path(o.input_dir, kwargs.parfile.name)
    ELSE kwargs.parfile

\* lines 357-359, m being the merged parameters
WriteParfile(parfile, m, f) ==
    IF ~m[1]
    THEN [err |-> Err("TypeError", "got multiple values for keyword argument"),
          ret |-> NonePath, par |-> NoPar, fs |-> f, log |-> <<>>]
    ELSE [err |-> NoErr, ret |-> parfile, par |-> m[2],
          fs |-> FsPut(f, parfile, [kind |-> "par", data |-> m[2]]),
          log |-> <<"parfile">>]

\* Input._write_parameter_file; kwargs.over holds the entries other than parfile
_write_parameter_file(o, isochrone, cmd_magnames, kwargs, f) ==
    WriteParfile(ParfilePath(o, kwargs),
                 Merge(DEFAULTS_FOR_PARFILE, Mandatory(o, isochrone, cmd_magnames),
                       kwargs.over),
                 f)

\* ------------------------------------------------------------ run staging
\* make_symlink(file, dest): a link to file in directory dest/<run name>
make_symlink(f, file, dest, run) ==
    FsPut(f, Path(dest, run \o <<"/">> \o file.name), [kind |-> "link", target |-> file])

ManifestPath(name) == Path(GALAXIA_FILENAMES, name \o <<".", "t", "x", "t">>)

\* Input._prepare_nbody1
_prepare_nbody1(o, kn, pn, f) ==
    [ret |-> ManifestPath(o.name),
     fs |-> FsPut(make_symlink(make_symlink(f, kn, GALAXIA_NBODY1, o.name),
                               pn, GALAXIA_NBODY1, o.name),
                  ManifestPath(o.name),
                  [kind |-> "manifest", name |-> o.name, pname |-> pn.name]),
     log |-> <<"stage">>]

\* what prepare_input leaves: the error, the values returned, the file
\* system, the instance, and the steps that wrote, in order
Outcome(e, name, parfile, for_parfile, f, o, log) ==
    [err |-> e, name |-> name, ret |-> parfile, par |-> for_parfile, fs |-> f,
     obj |-> o, log |-> log]

Aborted(e, f, o, log) == Outcome(e, <<>>, NonePath, NoPar, f, o, log)

\* line 349-350: the run is staged and the call returns
Stage(s1, s2, s3, s4) ==
    Outcome(NoErr, s3.obj.name, s1.ret, s1.par, s4.fs, s3.obj,
            s1.log \o s2.log \o s3.log \o s4.log)

\* line 348: s3 is what _write_particles gives
AfterParticles(s1, s2, s3) ==
    IF s3.err # NoErr THEN Aborted(s3.err, s3.fs, s3.obj, s1.log \o s2.log \o s3.log)
    ELSE Stage(s1, s2, s3, _prepare_nbody1(s3.obj, s2.ret, s3.ret, s3.fs))

\* prepare_input going on to the particles although _write_kernels raised
AfterKernelsNoAbort(d, s1, s2) ==
    AfterParticles(s1, s2, _write_particles(s2.obj, d, s2.fs))

\* line 347: s2 is what _write_kernels gives
AfterKernels(d, s1, s2) ==
    IF s2.err # NoErr THEN Aborted(s2.err, s2.fs, s2.obj, s1.log \o s2.log)
    ELSE AfterParticles(s1, s2, _write_particles(s2.obj, d, s2.fs))

\* line 346: s1 is what _write_parameter_file gives
AfterParfile(o, d, s1) ==
    IF s1.err # NoErr THEN Aborted(s1.err, s1.fs, o, s1.log)
    ELSE AfterKernels(d, s1, _write_kernels(o, d, s1.fs))

\* line 345: c is what isochrone.check_cmd_magnames gives
AfterCheck(o, d, isochrone, c, kwargs, f) ==
    IF ~c[1] THEN Aborted(Err("ValueError", "cmd_magnames"), f, o, <<>>)
    ELSE AfterParfile(o, d, _write_parameter_file(o, isochrone, c[2], kwargs, f))

\* Input.prepare_input: the steps in the order of lines 345-350; a step that
\* raises ends the call
prepare_input(o, d, isochrone, cmd_magnames, kwargs, f) ==
    AfterCheck(o, d, isochrone, check_cmd_magnames(isochrone, cmd_magnames), kwargs, f)

\* ------------------------------------------------------- caller's inputs
\* the optional keys a caller supplies, sampled
OptionalSamples ==
    {{}, {_parentid}, {_dform, "id"}, {_parentid, _dform, "alpha"},
     _optional_keys_in_particles}

\* a caller's array for key k with n rows: values that are neither zero nor
\* the row index, so that a default never equals supplied data
CallerArray(k, n, massDtype) ==
    Arr(IF k = _mass THEN massDtype
        ELSE IF k \in {_parentid, "id"} THEN "int64"
        ELSE IF k = _dform THEN "float32" ELSE "float64",
        [i \in 1..n |-> IF k = _parentid THEN 10 + i ELSE i])

\* a caller's particle dict: keys, n rows each, except key odd with one more
MakeParticles(given, n, odd, massDtype) ==
    [k \in given |-> CallerArray(k, IF k = odd THEN n + 1 ELSE n, massDtype)]

\* the dicts callers pass.  Valid ones: for two particles every sampled set
\* of optional keys with either mass dtype, for every other count up to MaxN
\* no optional key or all of them.  Invalid ones, for two particles: every
\* subset of the required keys, an unknown key, one array of another length.
CallerDicts ==
    {MakeParticles(_required_keys_in_particles \cup opt, 2, "none", md) :
        opt \in OptionalSamples, md \in {"float32", "float64"}}
    \cup
    {MakeParticles(_required_keys_in_particles \cup opt, n, "none",
                   IF opt = {} THEN "float32" ELSE "float64") :
        opt \in {{}, _optional_keys_in_particles}, n \in 0..MaxN}
    \cup
    {MakeParticles(req \cup opt \cup extra, 2, odd, "float64") :
        req \in SUBSET _required_keys_in_particles,
        opt \in {{}, {_parentid, _dform, "alpha"}},
        extra \in {{}, {"extra"}},
        odd \in {"none", "age", "pos3", "alpha"}}

CallerRhoPos(n) == Arr("float64", [i \in 1..n |-> 3 * i])
CallerRhoVel(n) == Arr("float64", [i \in 1..n |-> 3 * i + 6])

\* a call of Input(...) before the dispatch fills it in
Call(nargs, kw) ==
    [nargs |-> nargs, kw |-> kw, particles |-> "None",
     rho_pos |-> NoneArr, rho_vel |-> NoneArr,
     input_dir |-> GALAXIA_TMP, name |-> <<"a", "b">>, ngb |-> 8,
     k_factor |-> Scalar(2), former_kernel |-> FormerTrue,
     pname |-> NonePath, kname |-> NonePath, input_files_exist |-> FALSE]

\* the keyword combinations of array-based calls, sampled
ArrayKeywords ==
    {{}, {"name", "ngb", "k_factor"}, {"former_kernel"},
     {"former_kernel", "name", "ngb"}}

\* the array-based calls made with dict d: two or three positional arguments
\* (or rho_vel by keyword) with each keyword combination, and, to show the
\* arity check, one, four or five positional arguments
ArrayCalls(d) ==
    LET n == IF _mass \in DOMAIN d THEN len(d[_mass]) ELSE 2
        with(c, v) == [c EXCEPT !.rho_pos = CallerRhoPos(n),
                                !.rho_vel = IF v THEN CallerRhoVel(n) ELSE NoneArr]
    IN  {with(Call(2, kw), FALSE) : kw \in ArrayKeywords}
        \cup {with(Call(3, kw), TRUE) : kw \in ArrayKeywords}
        \cup {with(Call(2, {"rho_vel"}), TRUE)}
        \cup {with(Call(m, {}), TRUE) : m \in {1, 4, 5}}

\* -------------------------------------------------------------- the calls
NoCall ==
    [op |-> "none", who |-> "None", err |-> NoErr, ret |-> NonePath, name |-> <<>>,
     par |-> NoPar, log |-> <<>>, reads |-> <<>>, arg |-> NoDict, call |-> Call(0, {}),
     over |-> NoPar]

\* the dict instance o holds
Particles(o, h) == h[o.particles]

\* the state after a constructor call that gave r: an array-based instance
\* holds the caller's own dict d, a file-based one the dict ebf.read made
Constructed(who, call, d, r) ==
    /\ heap' = IF who = "A"
               THEN [heap EXCEPT !["callerDict"] =
                        IF r.ref = "callerDict" THEN r.dict ELSE d]
               ELSE [heap EXCEPT !["ebfDict"] = IF r.ref = "ebfDict" THEN r.dict ELSE @]
    /\ objs' = [objs EXCEPT ![who] = r.obj]
    /\ made' = IF r.err = NoErr THEN [made EXCEPT ![who] = call] ELSE made
    /\ last' = [NoCall EXCEPT !.op = "Input", !.who = who, !.err = r.err,
                              !.reads = r.reads, !.arg = d, !.call = call]
    /\ fs' = fs

\* Input(particles, rho_pos[, rho_vel], **kwargs): the caller builds a dict and
\* passes it; the instance, if any, holds that very dict
ConstructArrays ==
    /\ ~objs["A"].exists
    /\ heap["callerDict"] = NoDict
    /\ \E d \in CallerDicts :
       \E call \in ArrayCalls(d) : Constructed("A", call, d, init(call, fs, d))

\* the paths a caller names in a file-based call: the EBF files there are,
\* and one in another directory
EbfPaths == {q \in DOMAIN fs : fs[q].kind = "ebf"}
Elsewhere == Path("elsewhere", DEFAULT_SIMNAME \o <<".">> \o EBF)

\* the file-based calls: both names given (with and without former_kernel),
\* the two names in different directories, and one name or none given
FileCalls ==
    {c \in {[Call(0, kw) EXCEPT !.pname = p, !.kname = k] :
                p \in EbfPaths, k \in EbfPaths,
                kw \in {{"pname", "kname"}, {"pname", "kname", "former_kernel"}}} :
        c.pname # c.kname}
    \cup {[Call(0, {"pname", "kname"}) EXCEPT !.pname = p, !.kname = Elsewhere] :
        p \in EbfPaths}
    \cup {[Call(0, kw) EXCEPT !.pname = Elsewhere, !.kname = Elsewhere] :
        kw \in {{}, {"pname"}, {"kname"}}}

\* Input(pname=..., kname=..., former_kernel=...)
ConstructFiles ==
    /\ ~objs["F"].exists
    /\ \E call \in FileCalls : Constructed("F", call, NoDict, init(call, fs, NoDict))

\* the state after a call of a method of instance who, given the keyword
\* arguments over, that gave r
Called(who, op, over, r) ==
    /\ fs' = r.fs
    /\ objs' = [objs EXCEPT ![who] = r.obj]
    /\ last' = [NoCall EXCEPT !.op = op, !.who = who, !.err = r.err, !.ret = r.ret,
                              !.log = r.log, !.over = over,
                              !.name = IF op = "prepare_input" THEN r.name ELSE <<>>,
                              !.par = IF op \in {"prepare_input", "write_parameter_file"}
                                      THEN r.par ELSE NoPar]
    /\ UNCHANGED <<heap, made>>

\* input._write_kernels()
WriteKernels(who) ==
    /\ objs[who].exists
    /\ Called(who, "write_kernels", NoPar,
              _write_kernels(objs[who], Particles(objs[who], heap), fs))

\* input._write_particles()
WriteParticles(who) ==
    /\ objs[who].exists
    /\ Called(who, "write_particles", NoPar,
              _write_particles(objs[who], Particles(objs[who], heap), fs))

\* the isochrone a run is prepared with, and the names asked of it
TheIsochrone == [category |-> "cat", name |-> "sys", mag_names |-> {"G,Bp-Rp"}]
CmdMagnames == {"G,Bp-Rp", "X,Y-Z"}

\* the keyword arguments of prepare_input, sampled: none, an override of a
\* default, an override named like a mandatory field, and a relative parfile
PrepareKeywords ==
    {[parfile |-> NonePath, over |-> NoPar],
     [parfile |-> NonePath, over |-> [x \in {"r_max"} |-> PStr("caller")]],
     [parfile |-> NonePath, over |-> [x \in {"nres"} |-> PInt(5)]],
     [parfile |-> NonePath, over |-> [x \in {"photo_sys", "r_max"} |-> PStr("caller")]],
     [parfile |-> Path(".", <<"m", "y">>), over |-> [x \in {"r_max"} |-> PStr("caller")]]}

\* input.prepare_input(isochrone, cmd_magnames, **kwargs)
PrepareInput(who) ==
    /\ objs[who].exists
    /\ \E cmd \in CmdMagnames, kwargs \in PrepareKeywords :
          Called(who, "prepare_input", kwargs.over,
                 prepare_input(objs[who], Particles(objs[who], heap), TheIsochrone,
                               cmd, kwargs, fs))

\* what _write_parameter_file leaves, for instance o
ParfileOutcome(o, r) == Outcome(r.err, <<>>, r.ret, r.par, r.fs, o, r.log)

\* input._write_parameter_file(isochrone, cmd_magnames, **kwargs), with names
\* the isochrone has
WriteParameterFile(who) ==
    /\ objs[who].exists
    /\ \E cmd \in TheIsochrone.mag_names, kwargs \in PrepareKeywords :
          Called(who, "write_parameter_file", kwargs.over,
                 ParfileOutcome(objs[who],
                     _write_parameter_file(objs[who], TheIsochrone, cmd, kwargs, fs)))

NoFiles == [q \in {} |-> EmptyEbf]

Init ==
    /\ fs = NoFiles
    /\ heap = [r \in {"callerDict", "ebfDict"} |-> NoDict]
    /\ objs = [w \in {"A", "F"} |-> NoInput]
    /\ made = [w \in {"A", "F"} |-> Call(0, {})]
    /\ last = NoCall

Next ==
    \/ ConstructArrays
    \/ ConstructFiles
    \/ \E who \in {"A", "F"} : WriteKernels(who)
    \/ \E who \in {"A", "F"} : WriteParticles(who)
    \/ \E who \in {"A", "F"} : PrepareInput(who)
    \/ \E who \in {"A", "F"} : WriteParameterFile(who)

Spec == Init /\ [][Next]_vars

\* ------------------------------------------------- pre-existing input files
\* kernel file names found beside a particle file sim.ebf: the pattern with
\* hdim 3 or 6 and two neighbour counts, and names that break it: another
\* prefix, text before or after, empty digit groups, another suffix.  The
\* h_cubic of a kernel file has two columns, or one in a file named _d3
KernelName(prefix, hd, ng, tail) ==
    prefix \o <<"_", "d">> \o hd \o <<"n">> \o ng \o <<"_", "d", "e", "n">> \o tail

DotEbf == <<".">> \o EBF

KernelNameSamples ==
    {KernelName(DEFAULT_SIMNAME, str(h), str(g), DotEbf) : h \in {3, 6}, g \in {8, 64}}
    \cup {KernelName(<<"r", "u", "n">>, str(6), str(64), DotEbf),
          KernelName(<<"x">> \o DEFAULT_SIMNAME, str(6), str(64), DotEbf),
          KernelName(DEFAULT_SIMNAME, <<>>, str(64), DotEbf),
          KernelName(DEFAULT_SIMNAME, str(6), <<>>, DotEbf),
          KernelName(DEFAULT_SIMNAME, <<>>, <<>>, DotEbf),
          KernelName(DEFAULT_SIMNAME, str(6), str(64), <<"X">> \o EBF),
          KernelName(DEFAULT_SIMNAME, str(6), str(64), DotEbf \o <<"x">>),
          KernelName(DEFAULT_SIMNAME, str(6), str(64), <<".", "t", "x", "t">>),
          DEFAULT_SIMNAME \o <<"_", "d", "e", "n">> \o DotEbf}

\* a particle file of n particles as the engine's tools left it
LegacyParticles(n, given) ==
    EbfFile(MakeParticles(given, n, "none", "float64"))

\* a kernel file of n particles whose h_cubic has w columns; uniform tells
\* whether one k_factor made all its kernel lengths
LegacyKernels(n, w, uniform) ==
    EbfFile([x \in {_density, _kernels, _mass} |->
               IF x = _density THEN CallerRhoPos(n)
               ELSE IF x = _mass THEN CallerArray(_mass, n, "float64")
               ELSE Arr("float64",
                        [i \in 1..n |->
                           [j \in 1..w |-> (IF uniform THEN 6 ELSE 6 + i) - (i + j)]])])

LegacyFileSystems ==
    {[q \in {Path(GALAXIA_TMP, DEFAULT_SIMNAME \o DotEbf), Path(GALAXIA_TMP, kn)} |->
         IF q.name = kn THEN LegacyKernels(n, w, u) ELSE LegacyParticles(n, ks)] :
        kn \in KernelNameSamples, w \in {2}, u \in BOOLEAN, n \in {MaxN},
        ks \in {all_possible_keys_in_particles, _required_keys_in_particles}}
    \cup
    {[q \in {Path(GALAXIA_TMP, DEFAULT_SIMNAME \o DotEbf), Path(GALAXIA_TMP, kn)} |->
         IF q.name = kn THEN LegacyKernels(MaxN, 1, TRUE)
         ELSE LegacyParticles(MaxN, all_possible_keys_in_particles)] :
        kn \in {KernelName(DEFAULT_SIMNAME, str(3), str(g), DotEbf) : g \in {8, 64}}}

InitLegacy ==
    /\ fs \in LegacyFileSystems
    /\ heap = [r \in {"callerDict", "ebfDict"} |-> NoDict]
    /\ objs = [w \in {"A", "F"} |-> NoInput]
    /\ made = [w \in {"A", "F"} |-> Call(0, {})]
    /\ last = NoCall

NextLegacy ==
    \/ ConstructFiles
    \/ WriteKernels("F")
    \/ WriteParticles("F")
    \/ PrepareInput("F")
    \/ WriteParameterFile("F")

SpecLegacy == InitLegacy /\ [][NextLegacy]_vars


\* ------------------------------------------ the caller keeps its mapping
\* what a caller does later to the mapping it passed: it adds a key, removes
\* one, or replaces an array
CallerChangeKinds == {"add", "remove", "replace"}

CallerChanged(d, kind) ==
    IF kind = "add" THEN DictSet(d, "extra", d[_mass])
    ELSE IF kind = "remove" THEN [x \in DOMAIN d \ {_parentid} |-> d[x]]
    ELSE DictSet(d, "age", ZeroTimes(d[_mass]))

\* the caller changes its own dict after Input(particles, ...) returned; the
\* instance holds that dict by reference (line 142 takes it without a copy)
CallerChanges ==
    /\ objs["A"].exists
    /\ \E kind \in CallerChangeKinds :
          /\ CallerChanged(heap["callerDict"], kind) # heap["callerDict"]
          /\ heap' = [heap EXCEPT !["callerDict"] = CallerChanged(@, kind)]
          /\ last' = [NoCall EXCEPT !.op = "caller_change", !.who = "A",
                                    !.arg = heap["callerDict"]]
    /\ UNCHANGED <<fs, objs, made>>

NextOwner ==
    \/ ConstructArrays
    \/ CallerChanges
    \/ WriteParticles("A")

SpecOwner == Init /\ [][NextOwner]_vars

\* ---------------------------------------------------------------- Isochrone
\* the characters of the names used, in code point order (sorted() compares
\* str by code point)
Alphabet ==
    <<" ", "0", "1", "2", "3", "4", "5", "6", "7", "8", "9",
      "A", "B", "G", "L", "M", "P", "T", "V", "_",
      "a", "c", "e", "f", "g", "h", "i", "m", "n", "o", "p", "r", "s", "t", "u", "v", "y">>

Ord(ch) == CHOOSE i \in 1..Len(Alphabet) : Alphabet[i] = ch

RECURSIVE StrLess(_, _)
\* x < y for two str
StrLess(x, y) ==
    IF x = <<>> THEN y # <<>>
    ELSE IF y = <<>> THEN FALSE
    ELSE IF x[1] # y[1] THEN Ord(x[1]) < Ord(y[1])
    ELSE StrLess(Tail(x), Tail(y))

RECURSIVE sorted(_)
\* sorted(list(S)) for a set S of str
sorted(S) ==
    IF S = {} THEN <<>>
    ELSE LET m == CHOOSE x \in S : \A y \in S \ {x} : StrLess(x, y)
         IN  <<m>> \o sorted(S \ {m})

RECURSIVE join(_)
\* ' '.join(names)
join(names) ==
    IF names = <<>> THEN <<>>
    ELSE IF Len(names) = 1 THEN names[1]
    ELSE names[1] \o <<" ">> \o join(Tail(names))

RECURSIVE SplitFrom(_, _, _)
\* the words of line from position i on, word being the one under way
SplitFrom(line, i, word) ==
    IF i > Len(line) THEN (IF word = <<>> THEN <<>> ELSE <<word>>)
    ELSE IF line[i] = " "
    THEN (IF word = <<>> THEN <<>> ELSE <<word>>) \o SplitFrom(line, i + 1, <<>>)
    ELSE SplitFrom(line, i + 1, Append(word, line[i]))

\* line.split(): the words between runs of white space
split(line) == SplitFrom(line, 1, <<>>)

Range(h) == {h[i] : i \in 1..Len(h)}

_Age == <<"A", "g", "e">>
_M_ini == <<"M", "_", "i", "n", "i">>
_M_act == <<"M", "_", "a", "c", "t">>
_Lum == <<"L", "u", "m">>
_T_eff == <<"T", "_", "e", "f", "f">>
_Grav == <<"G", "r", "a", "v">>
_required_keys == <<_Age, _M_ini, _M_act, _Lum, _T_eff, _Grav>>

\* constants.ISO_REQUI_METAL: the required metallicities, numbered
ISO_REQUI_METAL == {1, 2}
\* constants.ISO_FILE_DESCRI and ISO_FILE_FORMAT
ISO_FILE_DESCRI == <<"d", "e", "s", "c", "r", "i">>
ISO_FILE_FORMAT(feh) == <<"i", "s", "o">> \o str(feh)

IsoPath(name, file) == [dir |-> name, name |-> file]
file_descriptor_path(name) == IsoPath(name, ISO_FILE_DESCRI)
has_file_descriptor(name, f) == file_descriptor_path(name) \in DOMAIN f

NoIsochrone == [exists |-> FALSE, name |-> <<>>]
NoData == [feh \in {} |-> <<>>]

\* the first line of the descriptor file (line 72)
DescriptorLine(name, order, magnames) ==
    <<"P", "y", "t", "h", "o", "n", "_">> \o name \o <<" ">> \o str(Len(order)) \o <<" ">>
    \o str(Len(_required_keys)) \o <<" ">> \o str(Len(magnames)) \o <<" ">> \o join(magnames)

\* f.write(line + "\n\n"): the line and an empty one
DescriptorFile(line) == [kind |-> "descriptor", lines |-> <<line, <<>>>>]

\* lines 66-73, header being the one header of the tables
WriteDescriptor(name, magnames, f) ==
    IF magnames = <<>>
    THEN [err |-> Err("ValueError", "no magnitude columns"), order |-> <<>>, fs |-> f]
    ELSE [err |-> NoErr, order |-> _required_keys \o magnames,
          fs |-> FsPut(f, file_descriptor_path(name),
                       DescriptorFile(DescriptorLine(name, _required_keys \o magnames,
                                                     magnames)))]

\* Isochrone._write_file_descriptor for data, a dict from metallicity to the
\* header of its table: the error raised, iso_column_order, the file system
_write_file_descriptor(name, data, f) ==
    IF DOMAIN data = {}
    THEN [err |-> Err("ValueError", "not enough values to unpack"), order |-> <<>>, fs |-> f]
    ELSE IF DOMAIN data # ISO_REQUI_METAL
    THEN [err |-> Err("ValueError", "wrong set of metallicities"), order |-> <<>>, fs |-> f]
    ELSE IF Cardinality({data[feh] : feh \in DOMAIN data}) > 1
    THEN [err |-> Err("ValueError", "unequal headers"), order |-> <<>>, fs |-> f]
    ELSE IF Range(_required_keys) \ Range(data[CHOOSE feh \in DOMAIN data : TRUE]) # {}
    THEN [err |-> Err("ValueError", "incomplete headers"), order |-> <<>>, fs |-> f]
    ELSE WriteDescriptor(name,
                         sorted(Range(data[CHOOSE feh \in DOMAIN data : TRUE])
                                \ Range(_required_keys)),
                         f)

\* IsochroneFile(path, iso[iso_column_order]) for every metallicity (lines 44-46)
WriteTracks(name, data, order, f) ==
    [q \in DOMAIN f \cup {IsoPath(name, ISO_FILE_FORMAT(feh)) : feh \in DOMAIN data} |->
        IF q \in {IsoPath(name, ISO_FILE_FORMAT(feh)) : feh \in DOMAIN data}
        THEN [kind |-> "track", columns |-> order]
        ELSE f[q]]

\* lines 43-46, r being what _write_file_descriptor gives
AfterDescriptor(name, data, r) ==
    IF r.err # NoErr THEN [err |-> r.err, fs |-> r.fs]
    ELSE [err |-> NoErr, fs |-> WriteTracks(name, data, r.order, r.fs)]

\* Isochrone._write_isochrone_files (the directory made at line 42 is not a file)
_write_isochrone_files(name, data, f) ==
    AfterDescriptor(name, data, _write_file_descriptor(name, data, f))

\* Isochrone.__init__(*args): one argument is a path, two are a name and data
IsochroneInit(nargs, name, data, f) ==
    IF nargs = 0 THEN [err |-> Err("TypeError", "requires at least one argument"), fs |-> f]
    ELSE IF nargs = 1 THEN [err |-> NoErr, fs |-> f]
    ELSE IF nargs = 2 THEN _write_isochrone_files(name, data, f)
    ELSE [err |-> Err("TypeError", "Too many arguments"), fs |-> f]

\* Isochrone.mag_names: <<error, names>>
mag_names(name, f) ==
    IF has_file_descriptor(name, f)
    THEN <<NoErr, SubSeq(split(f[file_descriptor_path(name)].lines[1]), 5,
                         Len(split(f[file_descriptor_path(name)].lines[1])))>>
    ELSE <<Err("NotImplementedError", "no IsoFileDescriptor.txt"), <<>>>>

\* the names of isochrones and of magnitude columns callers give
IsoNames == {<<"s", "y", "s">>, <<"m", "y", " ", "s">>}
MagSamples == {<<"V">>, <<"B">>, <<"B", "p">>, <<"B", " ", "V">>}

\* the headers of the tables: the required columns and none, one or two
\* magnitude columns in either order; a magnitude column first; Grav missing
HeaderSamples ==
    {_required_keys}
    \cup {_required_keys \o <<m>> : m \in MagSamples}
    \cup {_required_keys \o <<m[1], m[2]>> : m \in {x \in MagSamples \X MagSamples : x[1] # x[2]}}
    \cup {<<(<<"V">>)>> \o _required_keys, SubSeq(_required_keys, 1, 5) \o <<(<<"V">>)>>}

MaxFeh == 3

\* the isochrone data: every set of metallicities up to MaxFeh with one header
\* for all tables, and the required set with two different headers
IsoData ==
    {[feh \in F |-> h] : F \in SUBSET (1..MaxFeh), h \in HeaderSamples}
    \cup
    {[feh \in ISO_REQUI_METAL |-> IF feh = 1 THEN h[1] ELSE h[2]] :
        h \in {x \in {_required_keys \o <<(<<"V">>)>>, <<(<<"V">>)>> \o _required_keys,
                      _required_keys \o <<(<<"B">>)>>} \X
                     {_required_keys \o <<(<<"V">>)>>, <<(<<"V">>)>> \o _required_keys,
                      _required_keys \o <<(<<"B">>)>>} : x[1] # x[2]}}

\* the state after Isochrone(*args) gave r
IsochroneMade(nargs, name, data, r) ==
    /\ fs' = r.fs
    /\ objs' = [objs EXCEPT !["I"] = IF r.err = NoErr
                                     THEN [exists |-> TRUE, name |-> name] ELSE @]
    /\ made' = IF r.err = NoErr
               THEN [made EXCEPT !["I"] = [nargs |-> nargs, name |-> name, data |-> data]]
               ELSE made
    /\ last' = [NoCall EXCEPT !.op = "Isochrone", !.who = "I", !.err = r.err,
                              !.name = name, !.arg = data, !.call = Call(nargs, {})]
    /\ UNCHANGED heap

\* Isochrone(), Isochrone(path), Isochrone(name, data), Isochrone(name, data, x)
ConstructIsochrone ==
    /\ ~objs["I"].exists
    /\ \E nargs \in 0..3, name \in IsoNames, data \in IsoData :
          IsochroneMade(nargs, name, IF nargs = 2 THEN data ELSE NoData,
                        IsochroneInit(nargs, name, IF nargs = 2 THEN data ELSE NoData, fs))

\* the state after isochrone.mag_names gave r
NamesRead(r) ==
    /\ last' = [NoCall EXCEPT !.op = "mag_names", !.who = "I", !.err = r[1], !.ret = r[2],
                              !.name = objs["I"].name]
    /\ UNCHANGED <<fs, heap, objs, made>>

\* isochrone.mag_names
MagNames ==
    /\ objs["I"].exists
    /\ NamesRead(mag_names(objs["I"].name, fs))

InitIsochrone ==
    /\ fs = NoFiles
    /\ heap = [r \in {"callerDict", "ebfDict"} |-> NoDict]
    /\ objs = [w \in {"A", "F", "I"} |-> IF w = "I" THEN NoIsochrone ELSE NoInput]
    /\ made = [w \in {"A", "F", "I"} |->
                  IF w = "I" THEN [nargs |-> 0, name |-> <<>>, data |-> NoData]
                  ELSE Call(0, {})]
    /\ last = NoCall

NextIsochrone ==
    \/ ConstructIsochrone
    \/ MagNames

SpecIsochrone == InitIsochrone /\ [][NextIsochrone]_vars

\* ================================================================== claims
\* the dict a constructor call was given: the caller's, or the one read from
\* the particle file it names
Given == IF last.who = "A" THEN last.arg ELSE fs[last.call.pname].data
ArrayConstruction == last.op = "Input" /\ last.who = "A" /\ last.call.nargs \in {2, 3}

WrongKeys(d) ==
    \/ \E k \in {"pos3", "vel3", "mass", "age", "feh"} : k \notin DOMAIN d
    \/ \E k \in DOMAIN d : k \notin
           {"pos3", "vel3", "mass", "age", "feh", "parentid", "id", "dform", "helium",
            "carbon", "nitrogen", "oxygen", "neon", "magnesium", "silicon", "sulphur",
            "calcium", "alpha"}
WrongLengths(d) == \E k \in DOMAIN d : Len(d[k].data) # Len(d["mass"].data)

\* C1: an array-based construction fails with a schema error when a required
\* key is missing or an unknown key is present, else with a length-mismatch
\* error when an array's length differs from that of mass, and else succeeds;
\* when it fails the caller's mapping is as it was given (no default was
\* inserted) and no Input exists.
C1_Validation ==
    ArrayConstruction =>
        /\ WrongKeys(last.arg) => last.err.kind = "SchemaError"
        /\ ~WrongKeys(last.arg) /\ WrongLengths(last.arg)
              => last.err.kind = "LengthMismatchError"
        /\ ~WrongKeys(last.arg) /\ ~WrongLengths(last.arg)
              => last.err = NoErr /\ objs["A"].exists
        /\ last.err # NoErr => heap["callerDict"] = last.arg /\ ~objs["A"].exists

\* a length mismatch was rejected for a dict that lacks parentid and dform
C1_Witness ==
    /\ ArrayConstruction
    /\ last.err.kind = "LengthMismatchError"
    /\ "parentid" \notin DOMAIN last.arg
    /\ "dform" \notin DOMAIN last.arg

\* C2: after a successful construction the particle set holds parentid and
\* dform; an absent parentid is 0..length-1, an absent dform is all zeros,
\* one per particle, of the dtype of mass; every key given is unchanged and
\* no other key is added.
C2_Defaults ==
    last.op = "Input" /\ last.err = NoErr =>
        LET d == Given
            got == heap[objs[last.who].particles]
            n == Len(d["mass"].data)
        IN  /\ DOMAIN got = DOMAIN d \cup {"parentid", "dform"}
            /\ \A k \in DOMAIN d : got[k] = d[k]
            /\ "parentid" \notin DOMAIN d =>
                  /\ Len(got["parentid"].data) = n
                  /\ \A i \in 1..n : got["parentid"].data[i] = i - 1
            /\ "dform" \notin DOMAIN d =>
                  /\ Len(got["dform"].data) = n
                  /\ \A i \in 1..n : got["dform"].data[i] = 0
                  /\ got["dform"].dtype = d["mass"].dtype

\* MaxN particles of float32 mass were given with neither parentid nor dform
C2_Witness ==
    /\ ArrayConstruction
    /\ last.err = NoErr
    /\ DOMAIN last.arg = {"pos3", "vel3", "mass", "age", "feh"}
    /\ Len(last.arg["mass"].data) = MaxN
    /\ last.arg["mass"].dtype = "float32"
    /\ heap["callerDict"]["dform"].dtype = "float32"

\* a call that made the array-based instance write its particle file
WroteParticles ==
    /\ last.who = "A"
    /\ \/ last.op = "write_particles" /\ last.err = NoErr
       \/ last.op = "prepare_input" /\ \E i \in 1..Len(last.log) : last.log[i] = "particles"

\* C3: for a valid array-based Input optional_keys() is a subset of the 13
\* optional keys, and the particle file it writes holds exactly the 18 keys:
\* the particle set's own array for each key it holds, a zero array with one
\* entry per particle for each optional key it lacks.
C3_ParticleFile ==
    /\ objs["A"].exists =>
          optional_keys(heap["callerDict"]) \subseteq
              {"parentid", "id", "dform", "helium", "carbon", "nitrogen", "oxygen",
               "neon", "magnesium", "silicon", "sulphur", "calcium", "alpha"}
    /\ WroteParticles =>
          LET file == fs[pname(objs["A"])].data
              d == heap["callerDict"]
              n == Len(d["mass"].data)
          IN  /\ Cardinality(DOMAIN file) = 18
              /\ DOMAIN file = all_possible_keys_in_particles
              /\ \A k \in DOMAIN file :
                    IF k \in DOMAIN d THEN file[k] = d[k]
                    ELSE /\ Len(file[k].data) = n
                         /\ \A i \in 1..n : file[k].data[i] = 0

\* write_particles wrote a file for two or more particles that lack "alpha"
C3_Witness ==
    /\ WroteParticles
    /\ last.op = "write_particles"
    /\ "alpha" \notin DOMAIN heap["callerDict"]
    /\ "id" \in DOMAIN heap["callerDict"]
    /\ Len(heap["callerDict"]["mass"].data) >= 2
    /\ last.ret \in DOMAIN fs


WriterOps == {"write_kernels", "write_particles", "prepare_input"}

\* C4: for an Input made from pre-existing files every call of write_kernels,
\* write_particles or prepare_input leaves the kernel file and the particle
\* file as they were, and the writers return the kname and pname given at
\* construction; for an Input made from arrays every such call completes and
\* writes the file at the path it returns.
C4_WritersByProvenance ==
    [][last'.op \in WriterOps =>
          LET o == objs[last'.who]
              given == made[last'.who]
          IN  IF o.input_files_exist
              THEN /\ fs'[given.kname] = fs[given.kname]
                   /\ fs'[given.pname] = fs[given.pname]
                   /\ last'.op = "write_kernels" => last'.ret = given.kname
                   /\ last'.op = "write_particles" => last'.ret = given.pname
              ELSE /\ last'.op = "write_kernels" =>
                         /\ last'.err = NoErr
                         /\ last'.ret \in DOMAIN fs'
                         /\ DOMAIN fs'[last'.ret].data = {"density", "h_cubic", "mass"}
                   /\ last'.op = "write_particles" =>
                         /\ last'.err = NoErr
                         /\ last'.ret \in DOMAIN fs'
                         /\ Cardinality(DOMAIN fs'[last'.ret].data) = 18
                   /\ last'.op = "prepare_input" /\ last'.err = NoErr =>
                         /\ last'.ret \in DOMAIN fs'
                         /\ fs'[last'.ret].data = last'.par]_vars

\* C5: the parameters _write_parameter_file resolves take, key by key, the
\* mandatory value, else the caller's override, else the default, also when
\* the caller names an override like a mandatory field; the call completes
\* and the parameter file holds them.
C5_Precedence ==
    last.op = "write_parameter_file" =>
        /\ last.err = NoErr
        /\ \A x \in DOMAIN DEFAULTS_FOR_PARFILE \cup DOMAIN last.over :
              last.par[x] =
                 IF x = "photo_categ" THEN PStr("cat")
                 ELSE IF x = "photo_sys" THEN PStr("sys")
                 ELSE IF x = "mag_color_names" THEN PStr("G,Bp-Rp")
                 ELSE IF x = "nres" THEN PInt(objs[last.who].ngb)
                 ELSE IF x \in DOMAIN last.over THEN last.over[x]
                 ELSE DEFAULTS_FOR_PARFILE[x]
        /\ last.ret \in DOMAIN fs
        /\ fs[last.ret].data = last.par

IsPrefix(s, t) == Len(s) <= Len(t) /\ \A i \in 1..Len(s) : s[i] = t[i]

\* the steps of prepare_input that write, in order: a file-based Input writes
\* neither kernels nor particles
StepsOf(who) ==
    IF objs[who].input_files_exist THEN <<"parfile", "stage">>
    ELSE <<"parfile", "kernels", "particles", "stage">>

Links == {q \in DOMAIN fs : fs[q].kind = "link"}
Manifests == {q \in DOMAIN fs : fs[q].kind = "manifest"}

\* the links in the directory of a run
RunLinks(run) == {q \in Links : IsPrefix(run \o <<"/">>, q.name)}

\* the file at path q is there and was written to its last item
Written(q) == q \in DOMAIN fs /\ fs[q].kind = "ebf" /\ "mass" \in DOMAIN fs[q].data

\* C6: prepare_input writes the parameter file, then the kernel file, then
\* the particle file, then stages the run; a step that fails ends the call;
\* a manifest is there only with links to a kernel file and a particle file
\* that exist; on success the run name and the parameter file path are
\* returned.
C6_PrepareOrder ==
    /\ last.op = "prepare_input" =>
          /\ IsPrefix(last.log, StepsOf(last.who))
          /\ (last.err = NoErr) <=> (last.log = StepsOf(last.who))
          /\ last.err = NoErr =>
                /\ last.name = objs[last.who].name
                /\ last.ret \in DOMAIN fs
                /\ fs[last.ret].kind = "par"
                /\ Manifests # {}
    /\ \A m \in Manifests :
          \E k \in RunLinks(fs[m].name), q \in RunLinks(fs[m].name) :
              /\ Written(fs[k].target)
              /\ "h_cubic" \in DOMAIN fs[fs[k].target].data
              /\ Written(fs[q].target)
              /\ "pos3" \in DOMAIN fs[fs[q].target].data
              /\ fs[q].target.name = fs[m].pname

\* an array-based Input went through all four steps
C6_Witness ==
    /\ last.op = "prepare_input"
    /\ last.who = "A"
    /\ last.err = NoErr
    /\ last.log = <<"parfile", "kernels", "particles", "stage">>
    /\ Manifests # {}

\* C7: for an array-based Input hdim is 6 exactly when rho_vel is given and 3
\* otherwise; the kernels are derived in both modes, the position kernel
\* being k_factor / cbrt((4/3) pi rho_pos) and a velocity kernel being there
\* exactly when rho_vel is given; write_kernels completes in both modes and
\* writes <name>_d<hdim>n<ngb>_den.ebf.
C7_KernelDerivation ==
    objs["A"].exists =>
        LET o == objs["A"]
        IN  /\ hdim(o) = IF o.rho_vel.dtype = "None" THEN 3 ELSE 6
            /\ last.op = "write_kernels" /\ last.who = "A" =>
                  /\ last.err = NoErr
                  /\ last.ret.name = o.name \o <<"_", "d">> \o str(hdim(o)) \o <<"n">>
                                     \o str(o.ngb) \o <<"_", "d", "e", "n", ".", "e", "b", "f">>
                  /\ last.ret \in DOMAIN fs
            /\ kernels(o).err = NoErr
            /\ Len(kernels(o).h.data) = Len(o.rho_pos.data)
            /\ \A i \in 1..Len(o.rho_pos.data) :
                  /\ kernels(o).h.data[i][1] =
                        o.k_factor.v[1] - ((3 + o.rho_pos.data[i]) \div 3)
                  /\ Len(kernels(o).h.data[i]) = IF o.rho_vel.dtype = "None" THEN 1 ELSE 2

\* the kernel file names that follow the pattern, with their hdim and ngb
PatternNames ==
    {<<3, 8, <<"s", "i", "m", "_", "d", "3", "n", "8", "_", "d", "e", "n", ".", "e", "b", "f">>>>,
     <<6, 8, <<"s", "i", "m", "_", "d", "6", "n", "8", "_", "d", "e", "n", ".", "e", "b", "f">>>>,
     <<3, 64, <<"s", "i", "m", "_", "d", "3", "n", "6", "4", "_", "d", "e", "n", ".", "e", "b", "f">>>>,
     <<6, 64, <<"s", "i", "m", "_", "d", "6", "n", "6", "4", "_", "d", "e", "n", ".", "e", "b", "f">>>>}

\* C8: built from sim.ebf and a kernel file named sim_d<hdim>n<ngb>_den.ebf,
\* the Input has the ngb and the hdim of the name, for hdim 3 and 6; a kernel
\* file name that does not follow the pattern makes the construction fail
\* with a format error, and no Input is made.
C8_FilenameParsing ==
    /\ last.op = "Input"
    /\ last.who = "F"
    /\ {"pname", "kname"} \subseteq last.call.kw
    /\ last.call.pname.dir = last.call.kname.dir
    /\ last.call.pname.name = <<"s", "i", "m", ".", "e", "b", "f">>
    => IF \E t \in PatternNames : t[3] = last.call.kname.name
       THEN \A t \in PatternNames : t[3] = last.call.kname.name =>
               /\ last.err = NoErr
               /\ objs["F"].ngb = t[2]
               /\ hdim(objs["F"]) = t[1]
       ELSE /\ last.err.kind \in {"IndexError", "ValueError"}
            /\ ~objs["F"].exists

\* a constructor call whose arguments contradict each other
Contradictory(c) ==
    \/ c.nargs \notin {0, 2, 3}
    \/ c.nargs = 0 /\ ~({"pname", "kname"} \subseteq c.kw)
    \/ c.nargs = 0 /\ {"pname", "kname"} \subseteq c.kw /\ c.pname.dir # c.kname.dir

\* C9: a constructor call with one, four or more positional arguments, with
\* no positional argument and not both of pname and kname, or with pname and
\* kname in different directories fails with an error of the configuration
\* type (ValueError) that names the fault, before any file is read, and
\* makes no Input.
C9_ContradictoryArguments ==
    last.op = "Input" /\ Contradictory(last.call) =>
        /\ last.err.kind = "ValueError"
        /\ last.err.msg \in {"Wrong signature", "need to share the same parent directory"}
        /\ last.reads = <<>>
        /\ ~objs[last.who].exists

\* C10: an array-based Input with both densities wrote its kernel and
\* particle files; the file-based Input made from the two paths, with the
\* same former_kernel flag, has the same name, ngb, input directory, pname
\* and kname, and equal position density, velocity density, mass, k_factor
\* and kernel lengths.
C10_RoundTrip ==
    /\ last.op = "Input"
    /\ last.who = "F"
    /\ objs["A"].exists
    /\ objs["A"].rho_vel.dtype # "None"
    /\ last.call.pname = pname(objs["A"])
    /\ last.call.kname = kname(objs["A"])
    /\ {last.call.pname, last.call.kname} \subseteq DOMAIN fs
    /\ ("former_kernel" \in last.call.kw) <=> ("former_kernel" \in made["A"].kw)
    => LET a == objs["A"]
           b == objs["F"]
       IN  /\ last.err = NoErr
           /\ b.name = a.name
           /\ b.ngb = a.ngb
           /\ b.input_dir = a.input_dir
           /\ pname(b) = pname(a)
           /\ kname(b) = kname(a)
           /\ b.rho_pos.data = a.rho_pos.data
           /\ b.rho_vel.data = a.rho_vel.data
           /\ heap["ebfDict"]["mass"] = heap["callerDict"]["mass"]
           /\ \A i \in 1..Len(a.rho_pos.data) : At(b.k_factor, i) = At(a.k_factor, i)
           /\ kernels(b).err = NoErr
           /\ kernels(b).h = kernels(a).h


\* C11: a successful array-based construction leaves the caller's mapping as
\* it was passed; a later change of that mapping by the caller changes neither
\* what particles, keys() and optional_keys() give nor what write_particles
\* writes next.
C11_Ownership ==
    [][/\ last'.op = "Input" /\ last'.who = "A" /\ last'.err = NoErr =>
             heap'["callerDict"] = last'.arg
       /\ last'.op = "caller_change" =>
             /\ Particles(objs'["A"], heap') = Particles(objs["A"], heap)
             /\ keys(Particles(objs'["A"], heap')) = keys(Particles(objs["A"], heap))
             /\ optional_keys(Particles(objs'["A"], heap'))
                   = optional_keys(Particles(objs["A"], heap))
       /\ last.op = "caller_change" /\ last'.op = "write_particles" =>
             /\ last'.err = NoErr
             /\ \A k \in DOMAIN last.arg : fs'[last'.ret].data[k] = last.arg[k]]_vars


\* the six required columns of an isochrone table
SixRequired ==
    {<<"A", "g", "e">>, <<"M", "_", "i", "n", "i">>, <<"M", "_", "a", "c", "t">>,
     <<"L", "u", "m">>, <<"T", "_", "e", "f", "f">>, <<"G", "r", "a", "v">>}

\* the columns of the tables of data other than the six required ones
MagnitudeColumns(data) == UNION {Range(data[feh]) : feh \in DOMAIN data} \ SixRequired

\* data has the required metallicities, one header for all tables, the six
\* required columns and a magnitude column
WellFormed(data) ==
    /\ DOMAIN data = {1, 2}
    /\ \A f \in DOMAIN data, g \in DOMAIN data : data[f] = data[g]
    /\ \A f \in DOMAIN data : SixRequired \subseteq Range(data[f])
    /\ MagnitudeColumns(data) # {}

\* C12: Isochrone(name, data) writes the descriptor and one track file per
\* metallicity when data has exactly the required metallicities, one header
\* for all tables, the six required columns and at least one magnitude
\* column, and otherwise raises and writes no file; the first line of the
\* descriptor then gives 6 + the number of magnitude columns as the total,
\* and mag_names read back is the magnitude column names in sorted order.
C12_Descriptor ==
    /\ last.op = "Isochrone" /\ last.call.nargs = 2 =>
          IF WellFormed(last.arg)
          THEN /\ last.err = NoErr
               /\ [dir |-> last.name, name |-> <<"d", "e", "s", "c", "r", "i">>] \in DOMAIN fs
               /\ Cardinality({q \in DOMAIN fs : fs[q].kind = "track"}) = 2
               /\ StartsWithAt(fs[[dir |-> last.name,
                                   name |-> <<"d", "e", "s", "c", "r", "i">>]].lines[1],
                               <<"P", "y", "t", "h", "o", "n", "_">> \o last.name \o <<" ">>
                               \o str(6 + Cardinality(MagnitudeColumns(last.arg)))
                               \o <<" ", "6", " ">>
                               \o str(Cardinality(MagnitudeColumns(last.arg))) \o <<" ">>, 1)
          ELSE /\ last.err # NoErr
               /\ DOMAIN fs = {}
    /\ last.op = "mag_names" /\ made["I"].nargs = 2 =>
          /\ last.err = NoErr
          /\ Len(last.ret) = Cardinality(MagnitudeColumns(made["I"].data))
          /\ Range(last.ret) = MagnitudeColumns(made["I"].data)
          /\ \A i \in 1..Len(last.ret), j \in 1..Len(last.ret) :
                i < j => StrLess(last.ret[i], last.ret[j])

====
